---- MODULE Spec2Model ----
(***************************************************************************)
(* Raven type checker: the declaration store and its wakers, the function  *)
(* and struct verifiers (checker/src/output.rs, check_function.rs) and the *)
(* resolution of implementation calls (checker/src/check_impl_call.rs).    *)
(*                                                                         *)
(* A name is the sequence of its "::"-separated segments, so that          *)
(* name.split("::").last() is the last segment: "T::m" is <<"T", "m">>,    *)
(* "m" is <<"m">> and the empty string is <<"">>.                          *)
(***************************************************************************)
EXTENDS Integers, Sequences, FiniteSets, TLC

\* String::default(), the name of every placeholder entity
EmptyName == <<"">>

\* The functions handed to the verifiers
Funcs == {<<"T", "m">>, <<"m">>}

\* The methods a trait can declare
MethodNames == {<<"T", "m">>, <<"m">>, <<"T", "n">>}

\* The methods of the implementations of the trait for Circle and for Square
ImplNames == {<<"Circle", "m">>, <<"Circle", "n">>, <<"Square", "m">>}

\* Every name the store is asked for
Names == Funcs \cup MethodNames \cup ImplNames \cup {EmptyName}

\* The struct handed to verify_struct
Structs == {<<"S">>}

\* Tasks that wait for a function's data without verifying one themselves
Getters == {"g1", "g2"}

\* The task resolving the implementation call
CallTask == "call"

Tasks == Getters \cup {CallTask}

\* The bits is_modifier tests
Modifiers == {"Internal", "Extern", "Trait"}

\* The modifier sets of the declarations handed in
ModifierSets == {{}, {"Internal"}, {"Extern"}, {"Trait"}}

NoValue == [kind |-> "none"]

VARIABLES
  data,       \* syntax.functions.data: the names with a registered signature
  stored,     \* syntax.functions.data: name -> the signature stored under it
  wakers,     \* syntax.functions.wakers: name -> the wakers registered under it
  errors,     \* syntax.errors
  notified,   \* tasks whose waker was woken and which have not been polled since
  wakes,      \* per task, how often one of its wakers was woken
  pc,         \* per function, where its verification stands
  codeless,   \* per function, the signature verify_func returned
  code,       \* per function, the body verify_func returned with it
  fbody,      \* per function, the body verify_code was handed
  finalized,  \* per function, what verify_code returned
  spc,        \* per struct, where its verification stands
  fstruct,    \* per struct, what verify_struct returned
  gpc,        \* per getter, where it stands
  gname,      \* per getter, the name it asked for
  call,       \* the implementation call being resolved
  cpc,        \* where check_impl_call stands
  finalized_effects,  \* the evaluated effects of the call
  pending,    \* the call effect being built while a function's data is awaited
  spawned,    \* the jobs handed to the runtime's spawn
  result,     \* what check_virtual_type or check_impl_call returned
  verified,   \* the other functions whose verification reached the store
  impls,      \* the implementations registered so far, in order
  finished,   \* finished_impls(): no implementation is left to register
  impl_wakers, \* the wakers of the tasks suspended in an ImplWaiter
  output,     \* check_impl_call's output
  phase,      \* the try_get_impl under way: in the loop, or the final one
  cands,      \* the candidates try_get_impl has left to try
  final_tries, \* how many try_get_impl were started after the loop
  yielded     \* the search suspended since the loop's guard was last evaluated

storeVars == <<data, stored, wakers, errors, notified, wakes>>
declVars == <<pc, codeless, code, fbody, finalized, spc, fstruct>>
getterVars == <<gpc, gname>>
callVars == <<call, cpc, finalized_effects, pending, spawned, result>>
searchVars ==
  <<impls, finished, impl_wakers, output, phase, cands, final_tries, yielded>>

(***************************************************************************)
(* Function bodies and what checking them gives                            *)
(***************************************************************************)

\* ExpressionType::Return with a NOP effect
ReturnNOP == "ReturnNOP"

\* What the final try_get_impl of a search can give
TryOutputs == {"None", "Some", "Err"}

\* The bodies handed in: their lines (none for a declaration without a body),
\* and the implementation call they hold, as what its last try_get_impl gives
\* ("absent": no call)
Bodies ==
  [expressions : {<<>>, <<"Line">>, <<"Line", "Return">>}, impl_call : {"absent"}]
    \cup [expressions : {<<"Line">>}, impl_call : TryOutputs]

\* CodeBody::new(Vec::default(), String::default())
EmptyBody == [expressions |-> <<>>, impl_call |-> "absent"]

\* FinalizedCodeBody::new(expressions, label, returns)
FinalizedCodeBody(expressions, returns) ==
  [expressions |-> expressions, returns |-> returns]

\* The end of the implementation search: no output panics
check_impl_call_end(last) ==
  CASE last = "None" -> "panic"
    [] last = "Err" -> "err"
    [] OTHER -> "ok"

\* A body returns on every path when its last line is a return
BodyReturns(body) ==
  body.expressions # <<>> /\ body.expressions[Len(body.expressions)] = "Return"

\* check_code::verify_code on a body: its checked lines and whether it returns,
\* or the error or the panic of the implementation call in it
CheckBody(body) ==
  LET end == IF body.impl_call = "absent" THEN "ok"
             ELSE check_impl_call_end(body.impl_call)
  IN  IF end = "ok"
      THEN [kind |-> "ok",
            code |-> FinalizedCodeBody(body.expressions, BodyReturns(body))]
      ELSE [kind |-> end]

(***************************************************************************)
(* The declaration store                                                   *)
(***************************************************************************)

\* How often task t stands in a list of wakers
Occurrences(t, list) == Cardinality({i \in 1..Len(list) : list[i] = t})

Range(list) == {list[i] : i \in 1..Len(list)}

\* A waker table that keeps the woken wakers
KeepWakers(table, name) == table

\* locked.functions.wakers.remove(&codeless.data.name)
RemoveWakers(table, name) == [table EXCEPT ![name] = <<>>]

\* A table emptied before the signature is put in
InsertAlone(table, signature) ==
  [name \in Names |-> IF name = signature.name THEN signature ELSE NoValue]

\* locked.functions.data.insert(codeless.data.clone(), Arc::new(codeless.clone()))
Insert(table, signature) == [table EXCEPT ![signature.name] = signature]

\* The critical section of verify_function_code: the wakers under the name of
\* the signature are taken out of the table and woken, then the signature is
\* inserted
RegisterSignature(signature) ==
  /\ wakers' = RemoveWakers(wakers, signature.name)
  /\ notified' = notified \cup Range(wakers[signature.name])
  /\ wakes' = [t \in Tasks |->
                 wakes[t] + Occurrences(t, wakers[signature.name])]
  /\ data' = data \cup {signature.name}
  /\ stored' = Insert(stored, signature)

\* One poll of a request for a function's data: found, or a waker is left
\* under the name and the task suspends
PollFound(name) == name \in data

PollStore(task, name) ==
  /\ notified' = notified \ {task}
  /\ wakers' = IF PollFound(name) THEN wakers
               ELSE [wakers EXCEPT ![name] = Append(@, task)]
  /\ UNCHANGED <<data, stored, wakes>>

(***************************************************************************)
(* The verifiers                                                           *)
(***************************************************************************)

is_modifier(modifiers, target) == target \in modifiers

\* The parsed functions: name, declared return type or none, modifiers
UnfinalizedFunctions ==
  [name : Funcs, return_type : BOOLEAN, modifiers : ModifierSets]

\* verify_function: the signature of a function whose types resolve, the error
\* of the first one that does not
verify_function(function, resolves) ==
  IF resolves
  THEN [kind |-> "ok",
        codeless |-> [name |-> function.name,
                      return_type |-> function.return_type,
                      modifiers |-> function.modifiers],
        code |-> "declared"]
  ELSE [kind |-> "err", error |-> [kind |-> "signature", of |-> function.name]]

\* The signature verify_func returns after an error
PlaceholderCodeless ==
  [name |-> EmptyName, return_type |-> FALSE, modifiers |-> {}]

\* The function verify_code returns after an error
PlaceholderFunction ==
  [name |-> EmptyName, return_type |-> FALSE, modifiers |-> {},
   code |-> FinalizedCodeBody(<<>>, FALSE)]

\* FinalizedCodeBody::default() is the body of the placeholder function
add_code(function, body) ==
  [name |-> function.name, return_type |-> function.return_type,
   modifiers |-> function.modifiers, code |-> body]

\* A check of the return paths without the exemption of trait declarations
MissingReturnOfTraitRejected(function, checked) ==
  IF checked.returns THEN "keep"
  ELSE IF function.return_type THEN "error" ELSE "implicit"

\* A check of the return paths that never fails
MissingReturnAccepted(function, checked) ==
  IF checked.returns \/ function.return_type THEN "keep" ELSE "implicit"

\* What verify_function_code does with a checked body: keep it, append the
\* implicit return, or fail because a declared return type is not returned
MissingReturn(function, checked) ==
  IF ~checked.returns
  THEN IF ~function.return_type THEN "implicit"
       ELSE IF ~is_modifier(function.modifiers, "Trait") THEN "error"
       ELSE "keep"
  ELSE "keep"

\* verify_function_code after its critical section
verify_function_code(function, body) ==
  IF is_modifier(function.modifiers, "Internal")
       \/ is_modifier(function.modifiers, "Extern")
  THEN [kind |-> "ok",
        function |-> add_code(function, FinalizedCodeBody(<<>>, TRUE))]
  ELSE
    LET checked == CheckBody(body) IN
    IF checked.kind # "ok"
    THEN [kind |-> checked.kind, error |-> [kind |-> "body", of |-> function.name]]
    ELSE
      CASE MissingReturn(function, checked.code) = "implicit" ->
             [kind |-> "ok",
              function |->
                add_code(function,
                  FinalizedCodeBody(Append(checked.code.expressions, ReturnNOP),
                                    checked.code.returns))]
        [] MissingReturn(function, checked.code) = "error" ->
             [kind |-> "err",
              error |-> [kind |-> "incomplete-return", of |-> function.name]]
        [] OTHER ->
             [kind |-> "ok", function |-> add_code(function, checked.code)]

\* TypesChecker::verify_func: the signature, or one error and the placeholder
\* signature with an empty body
verify_func(f) ==
  /\ pc[f] = "queued"
  /\ \E function \in UnfinalizedFunctions, resolves \in BOOLEAN :
       /\ function.name = f
       /\ LET returned == verify_function(function, resolves) IN
          IF returned.kind = "ok"
          THEN /\ codeless' = [codeless EXCEPT ![f] = returned.codeless]
               /\ code' = [code EXCEPT ![f] = returned.code]
               /\ UNCHANGED errors
          ELSE /\ errors' = Append(errors, returned.error)
               /\ codeless' = [codeless EXCEPT ![f] = PlaceholderCodeless]
               /\ code' = [code EXCEPT ![f] = "empty"]
  /\ pc' = [pc EXCEPT ![f] = "codeless"]
  /\ UNCHANGED <<data, stored, wakers, notified, wakes, fbody, finalized, spc, fstruct>>
  /\ UNCHANGED <<getterVars, callVars, verified, searchVars>>

\* TypesChecker::verify_code, first step: verify_function_code registers the
\* signature under its own name
verify_code_register(f) ==
  /\ pc[f] = "codeless"
  /\ RegisterSignature(codeless[f])
  /\ pc' = [pc EXCEPT ![f] = "registered"]
  /\ UNCHANGED <<errors, codeless, code, fbody, finalized, spc, fstruct>>
  /\ UNCHANGED <<getterVars, callVars, verified, searchVars>>

\* TypesChecker::verify_code, second step: the body is checked and the function
\* returned, or one error is recorded and the placeholder function returned; a
\* panic inside the check ends the task without a value
verify_code(f) ==
  /\ pc[f] = "registered"
  /\ \E body \in IF code[f] = "declared" THEN Bodies ELSE {EmptyBody} :
       LET returned == verify_function_code(codeless[f], body) IN
       /\ fbody' = [fbody EXCEPT ![f] = body]
       /\ CASE returned.kind = "ok" ->
                 /\ finalized' = [finalized EXCEPT ![f] = returned.function]
                 /\ pc' = [pc EXCEPT ![f] = "done"]
                 /\ UNCHANGED errors
            [] returned.kind = "err" ->
                 /\ errors' = Append(errors, returned.error)
                 /\ finalized' = [finalized EXCEPT ![f] = PlaceholderFunction]
                 /\ pc' = [pc EXCEPT ![f] = "done"]
            [] OTHER ->
                 /\ pc' = [pc EXCEPT ![f] = "panicked"]
                 /\ UNCHANGED <<errors, finalized>>
  /\ UNCHANGED <<data, stored, wakers, notified, wakes, codeless, code, spc, fstruct>>
  /\ UNCHANGED <<getterVars, callVars, verified, searchVars>>

\* Struct::new: the poison list starts empty
Struct_new(fields, name) == [name |-> name, fields |-> fields, poisoned |-> <<>>]

\* Struct::new_poisoned: the name is kept and the error is the poison list
new_poisoned(name, error) ==
  [name |-> name, fields |-> <<>>, poisoned |-> <<error>>]

\* The struct verify_struct returns after an error: StructData::new with
\* String::default() for its name
PlaceholderStruct == Struct_new(<<>>, EmptyName)

\* TypesChecker::verify_struct: the struct, or one error and the placeholder
verify_struct(s) ==
  /\ spc[s] = "queued"
  /\ \E resolves \in BOOLEAN :
       IF resolves
       THEN /\ fstruct' = [fstruct EXCEPT ![s] = Struct_new(<<"field">>, s)]
            /\ UNCHANGED errors
       ELSE /\ errors' = Append(errors, [kind |-> "struct", of |-> s])
            /\ fstruct' = [fstruct EXCEPT ![s] = PlaceholderStruct]
  /\ spc' = [spc EXCEPT ![s] = "done"]
  /\ UNCHANGED <<data, stored, wakers, notified, wakes, pc, codeless, code, fbody>>
  /\ UNCHANGED finalized
  /\ UNCHANGED <<getterVars, callVars, verified, searchVars>>

(***************************************************************************)
(* Tasks waiting for a function's data                                     *)
(***************************************************************************)

\* The first poll of a request
getter_poll(g) ==
  /\ gpc[g] = "idle"
  /\ \E name \in Funcs :
       /\ gname' = [gname EXCEPT ![g] = name]
       /\ PollStore(g, name)
       /\ gpc' = [gpc EXCEPT ![g] = IF PollFound(name) THEN "done" ELSE "pending"]
  /\ UNCHANGED errors
  /\ UNCHANGED <<declVars, callVars, verified, searchVars>>

\* The poll of a request whose waker was woken
getter_repoll(g) ==
  /\ gpc[g] = "pending"
  /\ g \in notified
  /\ PollStore(g, gname[g])
  /\ gpc' = [gpc EXCEPT ![g] = IF PollFound(gname[g]) THEN "done" ELSE "pending"]
  /\ UNCHANGED <<errors, gname>>
  /\ UNCHANGED <<declVars, callVars, verified, searchVars>>

(***************************************************************************)
(* check_impl_call: the virtual-dispatch check                             *)
(***************************************************************************)

\* The longest method list of a trait
MaxMethods == 2

\* The method lists of a trait: no name twice
MethodLists ==
  {list \in UNION {[1..n -> MethodNames] : n \in 0..MaxMethods} :
     \A i, j \in 1..Len(list) : list[i] = list[j] => i = j}

\* The method names a call asks for
AskedMethods == {EmptyName, <<"m">>, <<"T", "m">>}

\* What find_method gives on the search type: none, or the matching methods
FindResults ==
  {[kind |-> "none"]} \cup
  [kind : {"some"},
   targets : {<<>>, <<<<"Circle", "m">>>>, <<<<"Circle", "m">>, <<"Square", "m">>>>}]

\* The evaluated effects of the call: the receiver first, then the argument
Effects == <<"receiver", "argument">>

\* found.name.split("::").last()
UnqualifiedName(name) == <<name[Len(name)]>>

\* An overload test that never finds two targets
NeverAmbiguous(target) == FALSE

\* target.len() > 1
Ambiguous(target) == Len(target) > 1

\* A method name never taken for the empty one
NeverEmpty(method) == FALSE

\* data.method.is_empty()
is_empty(method) == method = EmptyName

\* A receiver never taken for a generic
NeverGeneric(c) == FALSE

\* matches!(return_type, FinalizedTypes::Generic(_, _)) on the receiver effect
IsGeneric(c) == c.generic

\* No job is handed to the runtime
NoJobs(target) == {}

\* process_manager.handle().lock().unwrap().spawn(target.name.clone(),
\* degeneric_header(..)): the job spawned, by the name it is spawned under
SpawnJobs(target) == {target}

\* A slot counter that is never advanced
SameSlot(i) == i

\* i += 1
NextSlot(i) == i + 1

\* The for loop over the trait's method list, at its k-th method with the slot
\* counter at i: the first method whose name is the asked one, or whose
\* unqualified name is, with the counter's value there
\* A scan that looks for a method of exactly the asked name first, and for one
\* whose unqualified name is the asked one only when there is none
ScanExactFirst(functions, method, k, i) ==
  LET exact == {p \in k..Len(functions) : functions[p] = method}
      suffix == {p \in k..Len(functions) :
                   UnqualifiedName(functions[p]) = method}
      first(S) == CHOOSE p \in S : \A q \in S : p <= q
  IN  IF exact # {}
      THEN [kind |-> "exact", i |-> i + first(exact) - k,
            found |-> functions[first(exact)]]
      ELSE IF suffix # {}
      THEN [kind |-> "suffix", i |-> i + first(suffix) - k,
            found |-> functions[first(suffix)]]
      ELSE [kind |-> "nomatch"]

RECURSIVE ScanFrom(_, _, _, _)
ScanFrom(functions, method, k, i) ==
  IF k > Len(functions)
  THEN [kind |-> "nomatch"]
  ELSE LET found == functions[k] IN
       IF found = method
       THEN [kind |-> "exact", i |-> i, found |-> found]
       ELSE IF UnqualifiedName(found) = method
       THEN [kind |-> "suffix", i |-> i, found |-> found]
       ELSE ScanFrom(functions, method, k + 1, NextSlot(i))

\* check_virtual_type up to its first await: what it returns, or the function
\* it waits for and the call effect it then builds
VirtualDecision(c) ==
  IF ~c.of_type
  THEN [kind |-> "none"]
  ELSE
    LET scan == ScanFrom(c.functions, c.method, 1, 0) IN
    CASE scan.kind = "exact" ->
           [kind |-> "await", name |-> scan.found, swapped |-> TRUE, spawn |-> {},
            effect |-> [type |-> "VirtualCall", index |-> scan.i,
                        function |-> scan.found]]
      [] scan.kind = "suffix" ->
           IF c.find.kind = "none"
           THEN [kind |-> "panic"]
           ELSE IF Ambiguous(c.find.targets)
           THEN [kind |-> "err", message |-> "Ambiguous function!"]
           ELSE IF c.find.targets = <<>>
           THEN [kind |-> "err", message |-> "Unknown function!"]
           ELSE
             LET target == c.find.targets[Len(c.find.targets)] IN
             IF IsGeneric(c)
             THEN [kind |-> "await", name |-> scan.found, swapped |-> TRUE,
                   spawn |-> {},
                   effect |-> [type |-> "GenericVirtualCall", index |-> scan.i,
                               target |-> target, function |-> scan.found]]
             ELSE [kind |-> "await", name |-> target, swapped |-> FALSE,
                   spawn |-> SpawnJobs(target),
                   effect |-> [type |-> "VirtualCall", index |-> scan.i,
                               function |-> target]]
      [] OTHER ->
           IF ~is_empty(c.method)
           THEN [kind |-> "err", message |-> "Unknown method!"]
           ELSE [kind |-> "none"]

\* The call effect once the awaited function's data is there: the evaluated
\* effects move into it
Emit(p, effects) ==
  [kind |-> "effect",
   effect |-> p.effect @@ [effects |-> effects]]

\* check_virtual_type from its start to its return or its first suspension
check_virtual_type ==
  /\ cpc = "virtual"
  /\ LET d == VirtualDecision(call) IN
     IF d.kind = "await"
     THEN /\ spawned' = spawned \cup d.spawn
          /\ PollStore(CallTask, d.name)
          /\ IF PollFound(d.name)
             THEN /\ result' = Emit(d, finalized_effects)
                  /\ finalized_effects' = <<>>
                  /\ pending' = NoValue
                  /\ cpc' = "done"
             ELSE /\ result' = result
                  /\ finalized_effects' =
                       IF d.swapped THEN <<>> ELSE finalized_effects
                  /\ pending' = [d EXCEPT !.kind = "pending"] @@
                                  [temp |-> finalized_effects]
                  /\ cpc' = "await"
     ELSE /\ result' = d
          /\ cpc' = IF d.kind = "none" THEN "search" ELSE "done"
          /\ UNCHANGED <<data, stored, wakers, notified, wakes, finalized_effects,
                         pending, spawned>>
  /\ UNCHANGED <<errors, call>>
  /\ UNCHANGED <<declVars, getterVars, verified, searchVars>>

\* check_virtual_type polled again after its waker was woken
virtual_resume ==
  /\ cpc = "await"
  /\ CallTask \in notified
  /\ PollStore(CallTask, pending.name)
  /\ IF PollFound(pending.name)
     THEN /\ result' = Emit(pending, pending.temp)
          /\ finalized_effects' = <<>>
          /\ pending' = NoValue
          /\ cpc' = "done"
     ELSE UNCHANGED <<result, finalized_effects, pending, cpc>>
  /\ UNCHANGED <<errors, call, spawned>>
  /\ UNCHANGED <<declVars, getterVars, verified, searchVars>>

\* The verification of another function, from verify_func to the critical
\* section of verify_function_code: an error of its signature is recorded, and
\* its signature is registered under the name verify_func returned
verify_other(name) ==
  /\ name \notin verified
  /\ verified' = verified \cup {name}
  /\ \E function \in [name : {name}, return_type : {FALSE}, modifiers : {{}}],
        resolves \in BOOLEAN :
       LET returned == verify_function(function, resolves)
           signature == IF returned.kind = "ok" THEN returned.codeless
                        ELSE PlaceholderCodeless
       IN  /\ RegisterSignature(signature)
           /\ errors' = IF returned.kind = "ok" THEN errors
                         ELSE Append(errors, returned.error)
  /\ UNCHANGED <<declVars, getterVars, callVars, searchVars>>

\* The names the virtual-dispatch check of a call can ask the store for
AskedNames(c) ==
  Range(c.functions) \cup
    (IF c.find.kind = "some" THEN Range(c.find.targets) ELSE {})

(***************************************************************************)
(* check_impl_call: the implementation search                              *)
(***************************************************************************)

\* The types with an implementation of the trait
Types == {"Circle", "Square"}

\* The implementations that can be registered, each by its method: the type it
\* is for, the trait, and whether its parameters accept the call's effects
ImplDecls ==
  {[name |-> n, for |-> n[1], trait |-> "Drawable", accepts |-> a] :
     n \in ImplNames, a \in BOOLEAN}

\* The ImplWaiter try_get_impl builds
ImplWaiter(c) ==
  [return_type |-> c.finding_return_type, data |-> c.trait]

\* The methods found, last one first
Reversed(methods) ==
  [i \in 1..Len(methods) |-> methods[Len(methods) + 1 - i]]

\* for temp in &result: the methods in the order the ImplWaiter returned them
InOrder(methods) == methods

\* What implements the waiter's trait for any type, in registration order
AllImplementationMethods(waiter) ==
  SelectSeq(impls, LAMBDA m : m.trait = waiter.data)

\* What implements the waiter's trait for its type, in registration order
ImplementationMethods(waiter) ==
  SelectSeq(impls, LAMBDA m : m.for = waiter.return_type /\ m.trait = waiter.data)

\* One poll of an ImplWaiter: the methods found, its error once nothing is found
\* and no implementation is left to register, or a suspension
PollImplWaiter(waiter) ==
  LET methods == ImplementationMethods(waiter) IN
  IF methods # <<>> THEN [kind |-> "ok", methods |-> methods]
  ELSE IF finished THEN [kind |-> "err"]
  ELSE [kind |-> "pending"]

\* check_method: the call's effects bind to the method's parameters
check_method(method, c) == method.accepts

\* while output.is_none() && !finished_impls()
LoopGuard(out, fin) == out.kind = "None" /\ ~fin

\* try_get_impl returns: an error leaves check_impl_call, a value becomes the
\* output, and after the final attempt check_impl_call ends
TryReturns(value) ==
  IF value.kind = "Err"
  THEN /\ result' = [kind |-> "err", message |-> value.message]
       /\ cpc' = "done"
       /\ UNCHANGED output
  ELSE /\ output' = value
       /\ IF phase = "loop"
          THEN /\ cpc' = "search"
               /\ UNCHANGED result
          ELSE /\ cpc' = "done"
               /\ result' =
                    IF check_impl_call_end(value.kind) = "panic"
                    THEN [kind |-> "panic"]
                    ELSE [kind |-> "effect",
                          effect |-> [type |-> "MethodCall",
                                      function |-> value.found,
                                      effects |-> finalized_effects]]

\* check_impl_call after the virtual-dispatch check: the loop's guard, and past
\* the loop the final attempt or the return of the output
search_guard ==
  /\ cpc = "search"
  /\ IF LoopGuard(output, finished)
     THEN /\ cpc' = "try"
          /\ phase' = "loop"
          /\ UNCHANGED <<result, final_tries>>
     ELSE IF output.kind = "None"
     THEN /\ cpc' = "try"
          /\ phase' = "final"
          /\ final_tries' = final_tries + 1
          /\ UNCHANGED result
     ELSE /\ cpc' = "done"
          /\ result' = [kind |-> "effect",
                        effect |-> [type |-> "MethodCall",
                                    function |-> output.found,
                                    effects |-> finalized_effects]]
          /\ UNCHANGED <<phase, final_tries>>
  /\ yielded' = FALSE
  /\ UNCHANGED <<call, finalized_effects, pending, spawned, verified>>
  /\ UNCHANGED <<impls, finished, impl_wakers, output, cands>>
  /\ UNCHANGED <<storeVars, declVars, getterVars>>

\* The ImplWaiter of try_get_impl is polled
ImplWaiterStep ==
  /\ LET polled == PollImplWaiter(ImplWaiter(call)) IN
     CASE polled.kind = "ok" ->
            /\ cands' = InOrder(polled.methods)
            /\ cpc' = "cands"
            /\ UNCHANGED <<result, output, impl_wakers>>
       [] polled.kind = "err" ->
            /\ TryReturns([kind |-> "Err",
                           message |-> "Nothing implements the given trait!"])
            /\ UNCHANGED <<cands, impl_wakers>>
       [] OTHER ->
            /\ impl_wakers' = Append(impl_wakers, CallTask)
            /\ cpc' = "impl_wait"
            /\ UNCHANGED <<result, output, cands>>
  /\ notified' = notified \ {CallTask}
  /\ yielded' = (yielded \/ cpc' = "impl_wait")
  /\ UNCHANGED <<call, finalized_effects, pending, spawned, verified>>
  /\ UNCHANGED <<impls, finished, phase, final_tries>>
  /\ UNCHANGED <<data, stored, wakers, errors, wakes>>
  /\ UNCHANGED <<declVars, getterVars>>

\* try_get_impl starts
try_get_impl ==
  /\ cpc = "try"
  /\ ImplWaiterStep

\* try_get_impl goes on after the waker of its ImplWaiter was woken
impl_waiter_resume ==
  /\ cpc = "impl_wait"
  /\ CallTask \in notified
  /\ ImplWaiterStep

\* A check of the candidate that discards it when the return type annotation
\* does not parse, as it does when the method does not bind
CheckCandidateLenient(temp) ==
  IF call.returning # "bad" /\ check_method(temp, call)
  THEN /\ TryReturns([kind |-> "Some", found |-> temp.name])
       /\ cands' = <<>>
  ELSE /\ cands' = Tail(cands)
       /\ cpc' = "cands"
       /\ UNCHANGED <<result, output>>

\* The candidate whose data is there: the return type annotation is parsed and
\* the method checked; the first one that binds is returned
CheckCandidate(temp) ==
  IF call.returning = "bad"
  THEN /\ TryReturns([kind |-> "Err", message |-> "Incorrect bounds!"])
       /\ cands' = <<>>
  ELSE IF check_method(temp, call)
  THEN /\ TryReturns([kind |-> "Some", found |-> temp.name])
       /\ cands' = <<>>
  ELSE /\ cands' = Tail(cands)
       /\ cpc' = "cands"
       /\ UNCHANGED <<result, output>>

\* The name filter of try_get_impl's loop
MethodMatches(temp, method) ==
  UnqualifiedName(temp.name) = method \/ method = EmptyName

\* try_get_impl's loop over the methods found, one candidate a step
try_candidate ==
  /\ cpc = "cands"
  /\ IF cands = <<>>
     THEN /\ TryReturns([kind |-> "None"])
          /\ UNCHANGED <<cands, data, stored, wakers, notified, wakes>>
     ELSE LET temp == Head(cands) IN
          IF MethodMatches(temp, call.method)
          THEN /\ PollStore(CallTask, temp.name)
               /\ IF PollFound(temp.name)
                  THEN CheckCandidate(temp)
                  ELSE /\ cpc' = "cand_wait"
                       /\ UNCHANGED <<result, output, cands>>
          ELSE /\ cands' = Tail(cands)
               /\ UNCHANGED <<cpc, result, output, data, stored, wakers, notified, wakes>>
  /\ yielded' = (yielded \/ cpc' = "cand_wait")
  /\ UNCHANGED <<call, finalized_effects, pending, spawned, verified, errors>>
  /\ UNCHANGED <<impls, finished, impl_wakers, phase, final_tries>>
  /\ UNCHANGED <<declVars, getterVars>>

\* try_get_impl goes on after the waker left for a candidate's data was woken
candidate_resume ==
  /\ cpc = "cand_wait"
  /\ CallTask \in notified
  /\ PollStore(CallTask, Head(cands).name)
  /\ IF PollFound(Head(cands).name)
     THEN CheckCandidate(Head(cands))
     ELSE UNCHANGED <<cpc, result, output, cands>>
  /\ yielded' = (yielded \/ cpc' = "cand_wait")
  /\ UNCHANGED <<call, finalized_effects, pending, spawned, verified, errors>>
  /\ UNCHANGED <<impls, finished, impl_wakers, phase, final_tries>>
  /\ UNCHANGED <<declVars, getterVars>>

\* The wakers of the suspended ImplWaiters are woken
WakeImplWaiters ==
  /\ impl_wakers' = <<>>
  /\ notified' = notified \cup Range(impl_wakers)
  /\ wakes' = [t \in Tasks |-> wakes[t] + Occurrences(t, impl_wakers)]

\* An implementation is registered
add_impl(m) ==
  /\ ~finished
  /\ \A i \in 1..Len(impls) : impls[i].name # m.name
  /\ impls' = Append(impls, m)
  /\ WakeImplWaiters
  /\ UNCHANGED <<data, stored, wakers, errors, verified, finished>>
  /\ UNCHANGED <<output, phase, cands, final_tries, yielded>>
  /\ UNCHANGED <<declVars, getterVars, callVars>>

\* Every implementation has been registered
finish_impls ==
  /\ ~finished
  /\ finished' = TRUE
  /\ WakeImplWaiters
  /\ UNCHANGED <<data, stored, wakers, errors, verified, impls>>
  /\ UNCHANGED <<output, phase, cands, final_tries, yielded>>
  /\ UNCHANGED <<declVars, getterVars, callVars>>

vars == <<data, stored, wakers, errors, notified, wakes, pc, codeless, code, fbody,
          finalized,
          spc, fstruct, gpc, gname, call, cpc, finalized_effects, pending,
          spawned, result, verified, impls, finished, impl_wakers, output,
          phase, cands, final_tries, yielded>>

\* The store before anything is verified
InitStore ==
  /\ data = {}
  /\ stored = [name \in Names |-> NoValue]
  /\ wakers = [name \in Names |-> <<>>]
  /\ errors = <<>>
  /\ notified = {}
  /\ wakes = [t \in Tasks |-> 0]

\* The declarations as the parser hands them over
InitDecls ==
  /\ pc = [f \in Funcs |-> "queued"]
  /\ codeless = [f \in Funcs |-> NoValue]
  /\ code = [f \in Funcs |-> "none"]
  /\ fbody = [f \in Funcs |-> NoValue]
  /\ finalized = [f \in Funcs |-> NoValue]
  /\ spc = [s \in Structs |-> "queued"]
  /\ fstruct = [s \in Structs |-> NoValue]
  /\ gpc = [g \in Getters |-> "idle"]
  /\ gname = [g \in Getters |-> EmptyName]

\* No implementation search under way
InitNoSearch ==
  /\ impls = <<>>
  /\ finished = FALSE
  /\ impl_wakers = <<>>
  /\ output = [kind |-> "None"]
  /\ phase = "none"
  /\ cands = <<>>
  /\ final_tries = 0
  /\ yielded = FALSE

\* No implementation call under way
InitNoCall ==
  /\ call = NoValue
  /\ cpc = "none"
  /\ finalized_effects = <<>>
  /\ pending = NoValue
  /\ spawned = {}
  /\ result = NoValue
  /\ verified = {}
  /\ InitNoSearch

Init == InitStore /\ InitDecls /\ InitNoCall

Next ==
  \/ \E f \in Funcs : verify_func(f)
  \/ \E f \in Funcs : verify_code_register(f)
  \/ \E f \in Funcs : verify_code(f)
  \/ \E s \in Structs : verify_struct(s)
  \/ \E g \in Getters : getter_poll(g)
  \/ \E g \in Getters : getter_repoll(g)

\* The calls whose virtual-dispatch check is modelled
VirtualCalls ==
  [method : AskedMethods, functions : MethodLists, of_type : BOOLEAN,
   find : FindResults, generic : BOOLEAN,
   finding_return_type : {"Circle"}, trait : {"Drawable"}, returning : {"none"}]

InitVirtual ==
  /\ InitStore
  /\ InitDecls
  /\ call \in VirtualCalls
  /\ cpc = "virtual"
  /\ finalized_effects = Effects
  /\ pending = NoValue
  /\ spawned = {}
  /\ result = NoValue
  /\ verified = {}
  /\ InitNoSearch

NextVirtual ==
  \/ check_virtual_type
  \/ virtual_resume
  \/ \E name \in AskedNames(call) : verify_other(name)

\* The calls whose implementation search is modelled: the virtual-dispatch
\* check has returned nothing
SearchCalls ==
  [method : AskedMethods, functions : {<<>>}, of_type : {FALSE},
   find : {[kind |-> "none"]}, generic : {FALSE},
   finding_return_type : Types, trait : {"Drawable"},
   returning : {"none", "ok", "bad"}]

\* The names the implementation search of a call can ask the store for: the
\* methods of the implementations for its search type
SearchedNames(c) == {name \in ImplNames : name[1] = c.finding_return_type}

InitSearch ==
  /\ InitStore
  /\ InitDecls
  /\ call \in SearchCalls
  /\ cpc = "search"
  /\ finalized_effects = Effects
  /\ pending = NoValue
  /\ spawned = {}
  /\ result = NoValue
  /\ verified = {}
  /\ InitNoSearch

NextSearch ==
  \/ search_guard
  \/ try_get_impl
  \/ impl_waiter_resume
  \/ try_candidate
  \/ candidate_resume
  \/ \E m \in ImplDecls : add_impl(m)
  \/ finish_impls
  \/ \E name \in SearchedNames(call) : verify_other(name)

(***************************************************************************)
(* Properties of the declaration store and the verifiers                   *)
(***************************************************************************)

\* A getter is suspended exactly while a waker of it is in the table, and once
\* woken it finds the name it asked for
NoMissedWakeup ==
  \A g \in Getters :
    /\ wakes[g] <= 1
    /\ gpc[g] = "pending" =>
         \/ /\ Occurrences(g, wakers[gname[g]]) = 1
            /\ g \notin notified
            /\ wakes[g] = 0
         \/ /\ Occurrences(g, wakers[gname[g]]) = 0
            /\ g \in notified
            /\ wakes[g] = 1
            /\ gname[g] \in data
    /\ gpc[g] = "done" => gname[g] \in data /\ g \notin notified

\* The step in which the verification of f registers its signature
Registers(f) == pc[f] = "codeless" /\ pc'[f] = "registered"

\* C1: when verify_function_code registers a signature under a name, every waker
\* registered under that name is taken out of the table and woken once, the
\* signature is in the store after the same step, and so no suspended getter
\* misses its wakeup or is woken twice, whatever the interleaving.
C1_RegistrationWakesEveryWaiterOnce ==
  /\ []NoMissedWakeup
  /\ [][\A f \in Funcs :
          Registers(f) =>
            LET name == codeless[f].name IN
            /\ wakers'[name] = <<>>
            /\ name \in data'
            /\ Range(wakers[name]) \subseteq notified'
            /\ \A t \in Tasks :
                 wakes'[t] = wakes[t] + Occurrences(t, wakers[name])]_vars

\* Both getters were suspended on the same name and woken by its registration
C1_Witness ==
  /\ gname["g1"] = gname["g2"]
  /\ gname["g1"] \in data
  /\ {"g1", "g2"} \subseteq notified
  /\ wakes["g1"] = 1 /\ wakes["g2"] = 1
  /\ wakers[gname["g1"]] = <<>>

\* C2: once the verification of a function has run its registration, the
\* function's own name is in the store, also when verify_function failed.
C2_RequestedNameIsRegistered ==
  \A f \in Funcs : pc[f] \in {"registered", "done", "panicked"} => f \in data

\* The errors of a kind recorded for a declaration
ErrorsOf(kind, name) ==
  Cardinality({i \in 1..Len(errors) : errors[i] = [kind |-> kind, of |-> name]})

IsPrefix(a, b) == Len(a) <= Len(b) /\ SubSeq(b, 1, Len(a)) = a

\* One error more than before
OneMoreError == Len(errors') = Len(errors) + 1 /\ IsPrefix(errors, errors')

\* The verification of a declaration that has not ended can take its next step
Proceeds(f) ==
  /\ pc[f] = "queued" => ENABLED verify_func(f)
  /\ pc[f] = "codeless" => ENABLED verify_code_register(f)
  /\ pc[f] = "registered" => ENABLED verify_code(f)

\* C8: verify_func, verify_code and verify_struct always return a value: the
\* placeholder with exactly one more error in the list on a failure, a value
\* and the same list on success; the list only grows.
C8_VerifiersReturnValueOrOneError ==
  [][/\ IsPrefix(errors, errors')
     /\ \A f \in Funcs :
          /\ (pc[f] = "queued" /\ pc'[f] # "queued") =>
               /\ pc'[f] = "codeless"
               /\ \/ codeless'[f] = PlaceholderCodeless /\ OneMoreError
                  \/ codeless'[f] # PlaceholderCodeless /\ errors' = errors
          /\ (pc[f] = "registered" /\ pc'[f] # "registered") =>
               /\ pc'[f] = "done"
               /\ \/ finalized'[f] = PlaceholderFunction /\ OneMoreError
                  \/ finalized'[f] # PlaceholderFunction /\ errors' = errors
     /\ \A s \in Structs :
          (spc[s] = "queued" /\ spc'[s] # "queued") =>
            /\ spc'[s] = "done"
            /\ \/ fstruct'[s] = PlaceholderStruct /\ OneMoreError
               \/ fstruct'[s] # PlaceholderStruct /\ errors' = errors]_vars

\* The verification of f has ended for a signature with a return type and
\* without the Trait modifier, on a body whose lines check and that does not
\* return on every path
DeclaresUnreturnedType(f) ==
  /\ pc[f] = "done"
  /\ codeless[f].return_type
  /\ ~is_modifier(codeless[f].modifiers, "Trait")
  /\ CheckBody(fbody[f]).kind = "ok"
  /\ ~BodyReturns(fbody[f])

\* What the missing return is to give: one incomplete-return error, the
\* placeholder function, and the other declarations still verified
MissingReturnReported(f) ==
  /\ ErrorsOf("incomplete-return", f) = 1
  /\ ErrorsOf("body", f) = 0
  /\ finalized[f] = PlaceholderFunction
  /\ \A g \in Funcs \ {f} : Proceeds(g)

\* C9 as stated: every function that declares a return type, is no trait
\* declaration and has a body that does not return on every path gives exactly
\* one incomplete-return error and the placeholder function.
C9_MissingReturnIsOneError ==
  \A f \in Funcs : DeclaresUnreturnedType(f) => MissingReturnReported(f)

\* C9 amended: the same for the functions that are neither internal nor
\* extern, the ones whose body is checked at all.
C9_CheckedMissingReturnIsOneError ==
  \A f \in Funcs :
    ( /\ DeclaresUnreturnedType(f)
      /\ ~is_modifier(codeless[f].modifiers, "Internal")
      /\ ~is_modifier(codeless[f].modifiers, "Extern") ) =>
        MissingReturnReported(f)

\* A missing return was reported for one function and the other one was
\* verified after it without an error
C9_Witness ==
  \E f \in Funcs, g \in Funcs :
    /\ f # g
    /\ DeclaresUnreturnedType(f)
    /\ codeless[f].modifiers = {}
    /\ errors = <<[kind |-> "incomplete-return", of |-> f]>>
    /\ pc[g] = "done"
    /\ finalized[g].name = g

\* C10: a function without a declared return type whose checked body falls
\* through ends with the body's lines followed by the synthesized return, and
\* with the body's returns flag true.
C10_ImplicitReturnSetsReturns ==
  \A f \in Funcs :
    ( /\ pc[f] = "done"
      /\ code[f] = "declared"
      /\ ~codeless[f].return_type
      /\ ~is_modifier(codeless[f].modifiers, "Internal")
      /\ ~is_modifier(codeless[f].modifiers, "Extern")
      /\ CheckBody(fbody[f]).kind = "ok"
      /\ ~BodyReturns(fbody[f]) ) =>
        /\ finalized[f].code.expressions = Append(fbody[f].expressions, ReturnNOP)
        /\ finalized[f].code.returns = TRUE

\* The verification of struct s has ended on an error
StructFailed(s) == spc[s] = "done" /\ ErrorsOf("struct", s) > 0

\* C11: the struct verify_struct returns for a struct whose verification failed
\* is the poisoned stand-in of Struct::new_poisoned, with the struct's own name
\* and the error as its poison list; the struct returned on success has an
\* empty poison list.
C11_FailedStructIsPoisonedStandIn ==
  \A s \in Structs :
    /\ StructFailed(s) =>
         fstruct[s] = new_poisoned(s, [kind |-> "struct", of |-> s])
    /\ (spc[s] = "done" /\ ~StructFailed(s)) =>
         fstruct[s].name = s /\ fstruct[s].poisoned = <<>>

\* C12: an entry of the store is never removed, a function that verify_code has
\* finalized stays finalized, and its finalized representation is never
\* replaced by another one.
C12_FinalizationIsMonotonic ==
  [][/\ data \subseteq data'
     /\ \A name \in Names : stored[name] # NoValue => stored'[name] # NoValue
     /\ \A f \in Funcs :
          /\ pc[f] = "done" => pc'[f] = "done"
          /\ finalized[f] # NoValue => finalized'[f] = finalized[f]]_vars

\* Both functions are finalized, the second after the first, with their
\* signatures in the store under their own names
C12_Witness ==
  /\ \A f \in Funcs : pc[f] = "done" /\ finalized[f].name = f
  /\ \A f \in Funcs : f \in data /\ stored[f] = codeless[f]

\* impl PartialEq for Struct: two entities are equal iff their names are
EntityEq(a, b) == a.name = b.name

\* The entities the verifiers have returned so far, each with the declaration
\* it was returned for
Produced ==
  {[of |-> f, name |-> codeless[f].name] : f \in {g \in Funcs : codeless[g] # NoValue}}
    \cup {[of |-> f, name |-> finalized[f].name] :
            f \in {g \in Funcs : finalized[g] # NoValue}}
    \cup {[of |-> d, name |-> fstruct[d].name] :
            d \in {e \in Structs : fstruct[e] # NoValue}}

\* C13: two entities the verifiers returned, placeholders included, have the
\* same name only if they were returned for the same declaration.
C13_NameIdentifiesOneDeclaration ==
  \A a, b \in Produced : EntityEq(a, b) => a.of = b.of

\* The verification of f has ended for an internal function, an extern function
\* or a trait method declared without a body
SignatureOnly(f) ==
  /\ pc[f] = "done"
  /\ code[f] = "declared"
  /\ \/ is_modifier(codeless[f].modifiers, "Internal")
     \/ is_modifier(codeless[f].modifiers, "Extern")
     \/ is_modifier(codeless[f].modifiers, "Trait") /\ fbody[f] = EmptyBody

\* C14: for an internal function, an extern function and a trait method without
\* a body, verify_function_code registers the signature and returns it with an
\* empty body whose returns flag is true.
C14_SignatureOnlyHasEmptyReturningBody ==
  \A f \in Funcs :
    SignatureOnly(f) =>
      /\ stored[f] = codeless[f]
      /\ finalized[f] = add_code(codeless[f], FinalizedCodeBody(<<>>, TRUE))

\* The verification of f has ended for a function with the Trait modifier and a
\* return type, on a body whose lines check and that does not return
TraitWithoutReturn(f) ==
  /\ pc[f] = "done"
  /\ code[f] = "declared"
  /\ is_modifier(codeless[f].modifiers, "Trait")
  /\ codeless[f].return_type
  /\ CheckBody(fbody[f]).kind = "ok"
  /\ ~BodyReturns(fbody[f])

\* C15: a function with the Trait modifier that declares a return type and
\* whose body does not return on every path is finalized with its checked body,
\* and no incomplete-return error is recorded for it.
C15_TraitDeclarationNeedsNoReturn ==
  \A f \in Funcs :
    TraitWithoutReturn(f) =>
      /\ finalized[f] = add_code(codeless[f], CheckBody(fbody[f]).code)
      /\ ErrorsOf("incomplete-return", f) = 0

\* A trait function with a return type and a body of one line that is not a
\* return was finalized
C15_Witness ==
  \E f \in Funcs :
    /\ TraitWithoutReturn(f)
    /\ fbody[f].expressions = <<"Line">>
    /\ finalized[f].name = f
    /\ errors = <<>>

(***************************************************************************)
(* Properties of the virtual-dispatch check                                *)
(***************************************************************************)

\* The call effect check_virtual_type returned is the virtual call of the
\* method at position p of the trait's method list, with the evaluated effects
VirtualCallAt(p) ==
  /\ result.kind = "effect"
  /\ result.effect = [type |-> "VirtualCall", index |-> p - 1,
                      function |-> call.functions[p], effects |-> Effects]

\* C5: when the receiver's type is of the trait and the requested name is the
\* name of the method at a position of the trait's method list, the check
\* returns a VirtualCall whose slot is that position, counted from zero, for
\* every method list and every position.
C5_ExactMatchSlotIsPosition ==
  \A p \in 1..Len(call.functions) :
    ( /\ cpc = "done"
      /\ call.of_type
      /\ call.functions[p] = call.method ) => VirtualCallAt(p)

\* C5 amended: the same when no method before that position has the requested
\* name as its unqualified name.
C5_FirstMatchSlotIsPosition ==
  \A p \in 1..Len(call.functions) :
    ( /\ cpc = "done"
      /\ call.of_type
      /\ call.functions[p] = call.method
      /\ \A q \in 1..(p - 1) : UnqualifiedName(call.functions[q]) # call.method )
        => VirtualCallAt(p)

\* The requested name is the second method of the list, and its virtual call
\* was returned with slot 1
C5_Witness ==
  /\ cpc = "done"
  /\ call.of_type
  /\ Len(call.functions) >= 2
  /\ call.functions[2] = call.method
  /\ VirtualCallAt(2)

\* The scan of the trait's methods stops at an unqualified-name match and the
\* search type has more than one method of the requested name
AmbiguousCall ==
  /\ call.of_type
  /\ ScanFrom(call.functions, call.method, 1, 0).kind = "suffix"
  /\ call.find.kind = "some"
  /\ Len(call.find.targets) > 1

\* C7: on an unqualified-name match with more than one method of that name on
\* the search type, the check returns the error "Ambiguous function!" and
\* nothing else happens: it never waits for a function, spawns no
\* degenericization job and leaves the evaluated effects in place.
C7_AmbiguousIsOneErrorAndNoEffect ==
  AmbiguousCall =>
    /\ cpc \in {"virtual", "done"}
    /\ cpc = "done" => result = [kind |-> "err", message |-> "Ambiguous function!"]
    /\ spawned = {}
    /\ finalized_effects = Effects
    /\ pending = NoValue

\* An ambiguous call was checked
C7_Witness ==
  /\ AmbiguousCall
  /\ cpc = "done"
  /\ result = [kind |-> "err", message |-> "Ambiguous function!"]

\* The scan of the trait's methods stops at an unqualified-name match and the
\* search type has exactly one method of the requested name
OneTargetCall ==
  /\ call.of_type
  /\ ScanFrom(call.functions, call.method, 1, 0).kind = "suffix"
  /\ call.find.kind = "some"
  /\ Len(call.find.targets) = 1

\* The trait method the scan stopped at, and its slot
Matched == ScanFrom(call.functions, call.method, 1, 0)

\* The method of the search type that find_method returned
Target == call.find.targets[1]

C17_GenericReceiverGetsGenericVirtualCall ==
  (OneTargetCall /\ call.generic) =>
    /\ cpc \in {"virtual", "await", "done"}
    /\ spawned = {}
    /\ cpc = "await" => pending.name = Matched.found
    /\ cpc = "done" =>
         result = [kind |-> "effect",
                   effect |-> [type |-> "GenericVirtualCall",
                               index |-> Matched.i, target |-> Target,
                               function |-> Matched.found,
                               effects |-> Effects]]

\* A GenericVirtualCall at slot 1 was returned
C17_Witness ==
  /\ OneTargetCall /\ call.generic
  /\ cpc = "done"
  /\ result.kind = "effect"
  /\ result.effect.type = "GenericVirtualCall"
  /\ result.effect.index = 1
  /\ result.effect.effects = Effects

\* The virtual-dispatch check applies and no method of the trait matches the
\* requested name, exactly or by its unqualified name
NoMethodMatches ==
  /\ call.of_type
  /\ ScanFrom(call.functions, call.method, 1, 0).kind = "nomatch"

\* check_virtual_type returned nothing and check_impl_call stands at its
\* implementation search, of which no attempt has been made yet
FallsThroughToSearch ==
  /\ cpc = "search"
  /\ result = [kind |-> "none"]
  /\ phase = "none" /\ final_tries = 0

\* C18: when the check applies and no method matches, a requested name that is
\* not empty gives the error "Unknown method!" and no implementation search,
\* and an empty one gives no error and the implementation search; when the
\* check does not apply, the implementation search follows whatever the name
\* and the method list are. No job is spawned and the effects stay in place.
C18_NoMatchDependsOnNameOnly ==
  /\ (NoMethodMatches /\ call.method # EmptyName) =>
       /\ cpc \in {"virtual", "done"}
       /\ cpc = "done" => result = [kind |-> "err", message |-> "Unknown method!"]
       /\ phase = "none" /\ final_tries = 0
  /\ ((NoMethodMatches /\ call.method = EmptyName) \/ ~call.of_type) =>
       /\ cpc \in {"virtual", "search"}
       /\ cpc = "search" => FallsThroughToSearch
  /\ (NoMethodMatches \/ ~call.of_type) =>
       spawned = {} /\ finalized_effects = Effects /\ pending = NoValue

\* The check applied to a trait with two methods and an empty requested name,
\* and fell through to the search
C18_Witness ==
  /\ NoMethodMatches
  /\ call.method = EmptyName
  /\ Len(call.functions) = 2
  /\ FallsThroughToSearch

\* The positions of the trait's methods that have the requested name, or have
\* it as their unqualified name
Matching ==
  {p \in 1..Len(call.functions) :
     \/ call.functions[p] = call.method
     \/ UnqualifiedName(call.functions[p]) = call.method}

\* The first of them in declaration order
FirstMatching == CHOOSE p \in Matching : \A q \in Matching : p <= q

\* C21: the check decides on the first method of the trait, in declaration
\* order, that matches the requested name exactly or by its unqualified name:
\* the slot of the call it builds is the smallest position with either match,
\* counted from zero, and when that first match is by the unqualified name the
\* outcome is the one of that branch, never the VirtualCall of a later method
\* of exactly the requested name.
C21_FirstMatchOfEitherKindDecides ==
  (call.of_type /\ Matching # {}) =>
    /\ cpc = "await" => pending.effect.index = FirstMatching - 1
    /\ (cpc = "done" /\ result.kind = "effect") =>
         result.effect.index = FirstMatching - 1
    /\ call.functions[FirstMatching] = call.method =>
         /\ cpc = "await" => pending.name = call.method
         /\ cpc = "done" => VirtualCallAt(FirstMatching)
    /\ call.functions[FirstMatching] # call.method =>
         /\ cpc = "await" => pending.name # call.method
         /\ cpc = "done" =>
              \/ result.kind \in {"err", "panic"}
              \/ /\ result.kind = "effect"
                 /\ result.effect.type = "GenericVirtualCall"
                 /\ result.effect.function = call.functions[FirstMatching]
              \/ /\ result.kind = "effect"
                 /\ result.effect.type = "VirtualCall"
                 /\ result.effect.function = Target

\* The first method matches by its unqualified name, the second has exactly
\* the requested name, and the call returned is the one of the first, at slot 0
C21_Witness ==
  /\ call.of_type
  /\ Len(call.functions) = 2
  /\ call.functions[2] = call.method
  /\ FirstMatching = 1
  /\ cpc = "done"
  /\ result.kind = "effect"
  /\ result.effect.index = 0
  /\ result.effect.function # call.method

(***************************************************************************)
(* Properties of the implementation search                                 *)
(***************************************************************************)

\* C3: the implementation search does not hang: as long as check_impl_call has
\* not returned, the search or one of the tasks it waits for can take a step.
C3_SearchNeverStuck == cpc # "done" => ENABLED NextSearch

\* The search ended without a method, and not on a return type annotation that
\* failed to parse
Exhausted ==
  /\ cpc = "done"
  /\ result.kind # "effect"
  /\ ~(result.kind = "err" /\ result.message = "Incorrect bounds!")

\* C4: a search that is exhausted without a method returns the error "Nothing
\* implements the given trait!", also when methods were found and none of them
\* bound; it does not panic.
C4_ExhaustedSearchReturnsError ==
  Exhausted =>
    result = [kind |-> "err", message |-> "Nothing implements the given trait!"]

\* The implementation with the given name is registered
Registered(name) == \E i \in 1..Len(impls) : impls[i].name = name

\* The methods of the implementation for Circle
CircleMethods == {name \in ImplNames : name[1] = "Circle"}

\* The registered implementation for Circle binds the call's effects, its
\* method has the requested name and the return type annotation, if any, parses
CircleResolves ==
  /\ \E i \in 1..Len(impls) :
       /\ impls[i].for = "Circle"
       /\ impls[i].accepts
       /\ MethodMatches(impls[i], call.method)
  /\ call.returning # "bad"

\* C6: a call through a receiver of type Circle never has a method of the
\* implementation for Square among its candidates and never resolves to one,
\* and once the search has returned with the implementations for Circle and
\* for Square both registered, it has resolved to a method of the
\* implementation for Circle, in whichever order the two were registered.
C6_CircleCallResolvesToCircle ==
  call.finding_return_type = "Circle" =>
    /\ \A i \in 1..Len(cands) : cands[i].name \in CircleMethods
    /\ (cpc = "done" /\ result.kind = "effect") =>
         result.effect.function \in CircleMethods
    /\ ( /\ cpc = "done"
         /\ \E name \in CircleMethods : Registered(name)
         /\ Registered(<<"Square", "m">>)
         /\ CircleResolves ) =>
           \E name \in CircleMethods :
             result = [kind |-> "effect",
                       effect |-> [type |-> "MethodCall", function |-> name,
                                   effects |-> Effects]]

\* The implementation for Square was registered first, the one for Circle
\* second, and the call through Circle resolved to the method for Circle
C6_Witness ==
  /\ call.finding_return_type = "Circle"
  /\ cpc = "done"
  /\ Len(impls) = 2
  /\ impls[1].for = "Square" /\ impls[1].accepts
  /\ impls[2].name = <<"Circle", "m">>
  /\ result.kind = "effect"
  /\ result.effect.function = <<"Circle", "m">>

\* The search type's methods of the trait that are registered, in order
Found == ImplementationMethods(ImplWaiter(call))

\* The method binds the call: it has the requested name, or any name when none
\* is requested, and check_method succeeds on it
Binds(method) == MethodMatches(method, call.method) /\ check_method(method, call)

\* A step of try_get_impl on the candidate at the head of those left
CandidateStep ==
  /\ cpc \in {"cands", "cand_wait"}
  /\ cands # <<>>
  /\ cpc' # cpc \/ cands' # cands

\* C19: an attempt tries the methods in the order returned. Its output is the
\* first method that binds; a step on a candidate that does not bind discards
\* it, goes on with the next one and records and returns no error; a step on a
\* candidate with another name than the requested one discards it without
\* asking the store for it.
C19_FirstBindingCandidateWins ==
  /\ [](output.kind = "Some" =>
          \E i \in 1..Len(Found) :
            /\ Found[i].name = output.found
            /\ Binds(Found[i])
            /\ \A j \in 1..(i - 1) : ~Binds(Found[j]))
  /\ [][CandidateStep =>
          LET temp == Head(cands) IN
          /\ ~MethodMatches(temp, call.method) =>
               /\ cands' = Tail(cands) /\ cpc' = cpc
               /\ UNCHANGED <<wakers, notified, errors, result, output>>
          /\ ( /\ MethodMatches(temp, call.method)
               /\ temp.name \in data
               /\ call.returning # "bad"
               /\ ~check_method(temp, call) ) =>
                 /\ cands' = Tail(cands) /\ cpc' = "cands"
                 /\ UNCHANGED <<errors, result, output>>
          /\ ( /\ MethodMatches(temp, call.method)
               /\ temp.name \in data
               /\ call.returning # "bad"
               /\ check_method(temp, call) ) =>
                 output' = [kind |-> "Some", found |-> temp.name]]_vars

\* Two methods for Circle were found; the first did not bind and was discarded,
\* the second one is the output, and no error was recorded
C19_Witness ==
  /\ Len(Found) = 2
  /\ is_empty(call.method)
  /\ ~Binds(Found[1])
  /\ output = [kind |-> "Some", found |-> Found[2].name]
  /\ errors = <<>>

\* C20: the loop does not spin: when its guard is reached after an attempt of
\* the loop that gave no output, and lets the loop go on, the search has
\* suspended during that attempt.
C20_RetryOnlyAfterYield ==
  ( /\ cpc = "search"
    /\ phase = "loop"
    /\ LoopGuard(output, finished) ) => yielded

\* The two errors try_get_impl hands on with the ? operator
IncorrectBounds == [kind |-> "err", message |-> "Incorrect bounds!"]

NothingImplements ==
  [kind |-> "err", message |-> "Nothing implements the given trait!"]

\* The implementation lookup of an attempt is polled and leaves its state
LookupStep ==
  /\ cpc \in {"try", "impl_wait"}
  /\ cpc' # cpc

\* C22: an error of try_get_impl is not a discarded candidate. When the return
\* type annotation does not parse for a candidate of the requested name whose
\* data is there, or when the implementation lookup fails, that step ends
\* check_impl_call with the error and without an output; from then on nothing
\* of the search changes: no later candidate is tried, no further attempt is
\* started and the loop's guard is not reached again.
C22_ErrorEndsTheWholeSearch ==
  /\ [](result.kind = "err" =>
          /\ cpc = "done"
          /\ output.kind = "None"
          /\ result \in {IncorrectBounds, NothingImplements}
          /\ result = IncorrectBounds =>
               /\ call.returning = "bad"
               /\ \E i \in 1..Len(Found) :
                    /\ MethodMatches(Found[i], call.method)
                    /\ Found[i].name \in data
          /\ result = NothingImplements => (finished /\ Found = <<>>))
  /\ [][( /\ CandidateStep
          /\ MethodMatches(Head(cands), call.method)
          /\ Head(cands).name \in data
          /\ call.returning = "bad" ) =>
            /\ result' = IncorrectBounds
            /\ cpc' = "done"
            /\ UNCHANGED <<output, errors, phase, final_tries>>]_vars
  /\ [][( /\ LookupStep
          /\ PollImplWaiter(ImplWaiter(call)).kind = "err" ) =>
            /\ result' = NothingImplements
            /\ cpc' = "done"
            /\ UNCHANGED <<output, errors, phase, final_tries>>]_vars
  /\ [][cpc = "done" =>
          UNCHANGED <<cpc, result, output, cands, phase, final_tries,
                      yielded>>]_vars

\* Two methods for the search type have the requested name; the annotation did
\* not parse for the first, the search ended with that error in its first
\* attempt of the loop, and the second method was never asked for
C22_Witness ==
  /\ cpc = "done"
  /\ result = IncorrectBounds
  /\ phase = "loop"
  /\ final_tries = 0
  /\ ~finished
  /\ Len(Found) = 2
  /\ MethodMatches(Found[1], call.method)
  /\ MethodMatches(Found[2], call.method)
  /\ Found[1].name \in data
  /\ Found[2].name \notin data
  /\ wakers[Found[2].name] = <<>>

Spec == Init /\ [][Next]_vars

SpecVirtual == InitVirtual /\ [][NextVirtual]_vars

SpecSearch == InitSearch /\ [][NextSearch]_vars

====
